---- MODULE Spec2Model ----
\* A model of app.py, the Flask service that renders GraphViz DOT files to PNG.
\*
\* Strings are sequences of atoms (an atom is a run of characters the code
\* never looks inside): a file name is <<"graph", ".", "dot">>, an image
\* reference is <<"img", "/", "sg3", ".png">>.  The text of a DOT file is a
\* sequence of tokens; the code inspects it only through the literals
\* image="..." and label="...", which are tokens of their own.
EXTENDS Integers, Sequences, FiniteSets, TLC

VARIABLES
    call,      \* arguments of one direct call of generate_png_from_dot_file
    ret,       \* what that call returned or raised (NoReturn before it ran)
    reqs,      \* the HTTP requests received so far, each with its handler's locals
    uploads,   \* UPLOAD_FOLDER: the files in it, as [path, text]
    outputs,   \* OUTPUT_FOLDER: the files in it, as [name, data]
    last_get   \* the latest response of /image/<filename> or /download/<filename>

vars == <<call, ret, reqs, uploads, outputs, last_get>>

\* ---------------------------------------------------------------- bounds

MaxTextLen == 3
MaxRequests == 2

\* ---------------------------------------------------------------- strings

Contains(s, x) == \E i \in DOMAIN s : s[i] = x

\* needle in haystack, on atom sequences (Python's `in` on str)
IsSubstring(needle, hay) ==
    \E i \in 0..(Len(hay) - Len(needle)) :
        \A j \in 1..Len(needle) : hay[i + j] = needle[j]

\* the largest index of atom x in s, 0 when absent (str.rfind, 1-based)
RFind(s, x) ==
    IF Contains(s, x) THEN CHOOSE i \in DOMAIN s : s[i] = x /\ \A j \in DOMAIN s : s[j] = x => j <= i
    ELSE 0

\* str.lower() on the atoms file extensions are made of
Lower(a) ==
    CASE a = "DOT" -> "dot"
      [] a = "GV" -> "gv"
      [] a = "TXT" -> "txt"
      [] OTHER -> a

LowerStr(s) == [i \in DOMAIN s |-> Lower(s[i])]

\* str.replace(old, new) where old and new are single tokens
StrReplace(s, old, new) == [i \in DOMAIN s |-> IF s[i] = old THEN new ELSE s[i]]

\* str.replace('.png', '')
RemovePng(s) == SelectSeq(s, LAMBDA a : a # ".png")

\* ---------------------------------------------------------------- names

UPLOAD_FOLDER == <<"uploads">>
ALLOWED_EXTENSIONS == {<<"dot">>, <<"gv">>}

HarmonicName == <<"harmonic_distortion_test_setup", ".", "dot">>
VoltageName == <<"voltage_accuracy_test_setup", ".", "dot">>

DefaultSG == <<"signal_generator", ".png">>
DefaultSA == <<"spectrum_analyzer", ".png">>

\* image="<ref>" and label="<text>" as they stand in a DOT text
ImageTok(ref) == [k |-> "image", v |-> ref]
LabelTok(txt) == [k |-> "label", v |-> txt]
StmtTok == [k |-> "stmt", v |-> <<>>]          \* any other well-formed text
SyntaxErrTok == [k |-> "syntax_error", v |-> <<>>]  \* text the renderer rejects

SGLabel == <<"Signal Generator">>
SALabel == <<"Spectrum Analyzer">>
KeysightLabel(name) == <<"Keysight Technologies ">> \o name

\* ---------------------------------------------------------------- files on disk

\* the image files present in the working directory
ExistingAssets ==
    { DefaultSG, DefaultSA,
      <<"signal_generator2", ".png">>,
      <<"img", "/", "sg3", ".png">>,
      <<"spectrum_analyzer2", ".jpg">> }

MissingAsset == <<"missing", ".png">>

PathExists(ref) == ref \in ExistingAssets

\* ---------------------------------------------------------------- allowed_file

\* a check that looks for a dot and not at the extension
allowed_file_any_extension(filename) == Contains(filename, ".")

allowed_file(filename) ==
    /\ Contains(filename, ".")
    /\ LowerStr(SubSeq(filename, RFind(filename, ".") + 1, Len(filename))) \in ALLOWED_EXTENSIONS

\* ---------------------------------------------------------------- the renderer

\* graphviz.Source(text).pipe(format='png'): the external renderer, a
\* deterministic function of the submitted text that rejects malformed text
PngOf(text) == <<[k |-> "PNG", v |-> <<>>]>> \o text

RendererAccepts(text) == ~Contains(text, SyntaxErrTok)

\* ---------------------------------------------------------------- generate_png_from_dot_file

\* a guard that no longer looks for the default image token
TokenPresentUnchecked(dot_content, tok) == TRUE

\* `'image="..."' in dot_content`
TokenPresent(dot_content, tok) == Contains(dot_content, tok)

\* the harmonic_distortion_test_setup.dot branch, signal generator
HarmonicSG(dot_content, signal_generator_image) ==
    IF TokenPresent(dot_content, ImageTok(DefaultSG)) /\ signal_generator_image # DefaultSG
    THEN LET image == IF ~PathExists(signal_generator_image) THEN DefaultSG
                      ELSE signal_generator_image
             c1 == StrReplace(dot_content, ImageTok(DefaultSG), ImageTok(image))
             signal_generator_image_label == RemovePng(image)
         IN  StrReplace(c1, LabelTok(SGLabel),
                        LabelTok(KeysightLabel(signal_generator_image_label)))
    ELSE dot_content

\* the harmonic_distortion_test_setup.dot branch, spectrum analyzer
HarmonicSA(dot_content, spectrum_analyzer_image) ==
    IF TokenPresent(dot_content, ImageTok(DefaultSA)) /\ spectrum_analyzer_image # DefaultSA
    THEN LET image == IF ~PathExists(spectrum_analyzer_image) THEN DefaultSA
                      ELSE spectrum_analyzer_image
             c1 == StrReplace(dot_content, ImageTok(DefaultSA), ImageTok(image))
             spectrum_analyzer_image_label == RemovePng(image)
         IN  StrReplace(c1, LabelTok(SALabel),
                        LabelTok(KeysightLabel(spectrum_analyzer_image_label)))
    ELSE dot_content

\* the voltage_accuracy_test_setup.dot branch: [raised, content]
VoltageSG(dot_content, signal_generator_image) ==
    IF TokenPresent(dot_content, ImageTok(DefaultSG)) /\ signal_generator_image # DefaultSG
    THEN IF ~PathExists(signal_generator_image)
         THEN [raised |-> TRUE, content |-> dot_content]
         ELSE [raised |-> FALSE,
               content |-> StrReplace(dot_content, ImageTok(DefaultSG),
                                      ImageTok(signal_generator_image))]
    ELSE [raised |-> FALSE, content |-> dot_content]

\* lines 264-286: the text to submit, or the exception of line 283
Substitute(dot_filepath, dot_content, signal_generator_image, spectrum_analyzer_image) ==
    IF IsSubstring(HarmonicName, dot_filepath)
    THEN [raised |-> FALSE,
          content |-> HarmonicSA(HarmonicSG(dot_content, signal_generator_image),
                                 spectrum_analyzer_image)]
    ELSE IF IsSubstring(VoltageName, dot_filepath)
    THEN VoltageSG(dot_content, signal_generator_image)
    ELSE [raised |-> FALSE, content |-> dot_content]

\* what a call returns: the bytes, or the exception re-raised at line 298
Returned(text) ==
    [raised |-> FALSE, error |-> "", rendered |-> TRUE, submitted |-> text, png |-> PngOf(text)]
Raised(kind, wasRendered, text) ==
    [raised |-> TRUE, error |-> kind, rendered |-> wasRendered, submitted |-> text, png |-> <<>>]
NoReturn ==
    [raised |-> FALSE, error |-> "pending", rendered |-> FALSE, submitted |-> <<>>, png |-> <<>>]

\* lines 288-298 on the substituted text
RenderPipe(text) ==
    IF RendererAccepts(text) THEN Returned(text)
    ELSE Raised("render_failure", TRUE, text)

\* the function on the content read from dot_filepath
generate_png_from_dot_file(dot_filepath, dot_content, signal_generator_image, spectrum_analyzer_image) ==
    LET s == Substitute(dot_filepath, dot_content, signal_generator_image, spectrum_analyzer_image)
    IN  IF s.raised THEN Raised("signal_generator_image_not_found", FALSE, <<>>)
        ELSE RenderPipe(s.content)

\* ---------------------------------------------------------------- direct calls

TextTokens ==
    { ImageTok(DefaultSG), ImageTok(DefaultSA), LabelTok(SGLabel), LabelTok(SALabel),
      StmtTok, SyntaxErrTok }

Texts == UNION { [1..n -> TextTokens] : n \in 0..MaxTextLen }

StagedPath(file_id) == UPLOAD_FOLDER \o <<"/", file_id, ".", "dot">>

CallPaths ==
    { HarmonicName, VoltageName,
      <<"lab", "/">> \o HarmonicName,
      <<"harmonic_distortion_test_setup", ".", "DOT">>,
      <<"other", ".", "gv">>,
      StagedPath("uuid1") }

CallSG == { DefaultSG, <<"signal_generator2", ".png">>, <<"img", "/", "sg3", ".png">>,
            DefaultSA, MissingAsset }
CallSA == { DefaultSA, <<"spectrum_analyzer2", ".jpg">>, MissingAsset }

NoGet == [route |-> "", filename |-> <<>>, status |-> 0, body |-> <<>>]

NoCall == [dot_filepath |-> <<>>, dot_content |-> <<>>,
           signal_generator_image |-> DefaultSG, spectrum_analyzer_image |-> DefaultSA]

InitCall ==
    /\ call \in [dot_filepath : CallPaths, dot_content : Texts,
                 signal_generator_image : CallSG, spectrum_analyzer_image : CallSA]
    /\ ret = NoReturn
    /\ reqs = <<>>
    /\ uploads = {}
    /\ outputs = {}
    /\ last_get = NoGet

CallRender ==
    /\ ret = NoReturn
    /\ ret' = generate_png_from_dot_file(call.dot_filepath, call.dot_content,
                                         call.signal_generator_image,
                                         call.spectrum_analyzer_image)
    /\ UNCHANGED <<call, reqs, uploads, outputs, last_get>>

SpecCall == InitCall /\ [][CallRender]_vars

\* ---------------------------------------------------------------- the working directory

\* the DOT files shipped with the service, and what else a file name can hit
HarmonicText == <<ImageTok(DefaultSG), LabelTok(SGLabel), ImageTok(DefaultSA), LabelTok(SALabel)>>
VoltageText == <<ImageTok(DefaultSG), LabelTok(SGLabel), StmtTok>>
BrokenText == <<ImageTok(DefaultSG), SyntaxErrTok>>

FolderName == <<"folder", ".", "gv">>     \* a directory: exists, cannot be opened
NotesName == <<"notes", ".", "txt">>
MissingName == <<"missing", ".", "dot">>

CwdFiles == {HarmonicName, VoltageName, NotesName}
CwdDirs == {FolderName}

FileText(name) ==
    CASE name = HarmonicName -> HarmonicText
      [] name = VoltageName -> VoltageText
      [] OTHER -> <<StmtTok>>

\* Path(filename).exists()
CwdExists(filename) == filename \in CwdFiles \cup CwdDirs

\* Path(filename).stem
Stem(filename) ==
    LET name == SubSeq(filename, RFind(filename, "/") + 1, Len(filename))
        i == RFind(name, ".")
    IN  IF 1 < i /\ i < Len(name) THEN SubSeq(name, 1, i - 1) ELSE name

\* ---------------------------------------------------------------- the folders

Lookup(folder, path) == { f \in folder : f.path = path }

\* file.save(path) / open(path, 'wb').write(data): creates or overwrites
SaveUpload(folder, path, text) ==
    { f \in folder : f.path # path } \cup {[path |-> path, text |-> text]}

\* a write that never reaches the disk
WriteFileSkipped(folder, name, data) == folder

WriteFile(folder, name, data) ==
    { f \in folder : f.name # name } \cup {[name |-> name, data |-> data]}

\* an identifier that is the same for every request
FixedUuid(n) == "uuid0"

\* str(uuid.uuid4()) of the n-th request: fresh for every request
NewUuid(n) == "uuid" \o ToString(n)

\* an output name built from the source file's name alone
OutputNameNoId(filename, file_id) == Stem(filename) \o <<".png">>

\* line 172 and line 212
UploadOutputName(file_id) == <<file_id, ".png">>
ExistingOutputName(filename, file_id) == Stem(filename) \o <<"_", file_id, ".png">>

\* ---------------------------------------------------------------- requests

NoResponse == [status |-> 0, error |-> "", output_file |-> <<>>]
ErrorResponse(status, error) == [status |-> status, error |-> error, output_file |-> <<>>]
OkResponse(output_filename) == [status |-> 200, error |-> "", output_file |-> output_filename]

NewRequest(route, filename, body, sg, sa) ==
    [route |-> route, filename |-> filename, body |-> body,
     signal_generator_image |-> sg, spectrum_analyzer_image |-> sa,
     pc |-> "done", file_id |-> "", dot_filepath |-> <<>>, dot_content |-> <<>>,
     png_data |-> <<>>, invoked |-> FALSE, response |-> NoResponse]

Rejected(r, status, error) == [r EXCEPT !.pc = "done", !.response = ErrorResponse(status, error)]

\* the forms posted to /generate: a file with a name and a text, and the
\* optional signal_generator_image (has_file is FALSE without a 'file' part)
UploadForm(has_file, filename, body, sg) ==
    [has_file |-> has_file, filename |-> filename, body |-> body, signal_generator_image |-> sg]

UploadForms ==
    { UploadForm(TRUE, <<"graph", ".", "GV">>, body, sg) :
        body \in {HarmonicText, BrokenText},
        sg \in {DefaultSG, <<"signal_generator2", ".png">>} }
    \cup { UploadForm(TRUE, <<"graph", ".", "txt">>, HarmonicText, <<"signal_generator2", ".png">>),
           UploadForm(TRUE, <<>>, <<>>, DefaultSG),
           UploadForm(FALSE, <<>>, <<>>, DefaultSG) }

\* the JSON posted to /generate_from_existing (has_name is FALSE without 'filename')
ExistingForm(has_name, filename, sg, sa) ==
    [has_name |-> has_name, filename |-> filename,
     signal_generator_image |-> sg, spectrum_analyzer_image |-> sa]

ExistingForms ==
    { ExistingForm(TRUE, HarmonicName, sg, sa) :
        sg \in {<<"signal_generator2", ".png">>, MissingAsset},
        sa \in {DefaultSA, <<"spectrum_analyzer2", ".jpg">>} }
    \cup { ExistingForm(TRUE, VoltageName, sg, DefaultSA) :
        sg \in {<<"signal_generator2", ".png">>, MissingAsset} }
    \cup { ExistingForm(TRUE, FolderName, MissingAsset, DefaultSA),
           ExistingForm(TRUE, NotesName, <<"signal_generator2", ".png">>, DefaultSA),
           ExistingForm(TRUE, MissingName, <<"signal_generator2", ".png">>, DefaultSA),
           ExistingForm(FALSE, <<>>, DefaultSG, DefaultSA) }

Init ==
    /\ call = NoCall
    /\ ret = NoReturn
    /\ reqs = <<>>
    /\ uploads = {}
    /\ outputs = {}
    /\ last_get = NoGet

\* /generate, lines 143-163: validate the form and stage the file
ReceiveUpload ==
    /\ Len(reqs) < MaxRequests
    /\ \E form \in UploadForms :
        LET n == Len(reqs) + 1
            r == NewRequest("generate", form.filename, form.body,
                            form.signal_generator_image, DefaultSA)
        IN  IF ~form.has_file
            THEN /\ reqs' = Append(reqs, Rejected(r, 400, "No file provided"))
                 /\ UNCHANGED uploads
            ELSE IF form.filename = <<>>
            THEN /\ reqs' = Append(reqs, Rejected(r, 400, "No file selected"))
                 /\ UNCHANGED uploads
            ELSE IF ~allowed_file(form.filename)
            THEN /\ reqs' = Append(reqs, Rejected(r, 400, "Invalid file type"))
                 /\ UNCHANGED uploads
            ELSE LET file_id == NewUuid(n)
                     temp_filepath == StagedPath(file_id)
                 IN  /\ uploads' = SaveUpload(uploads, temp_filepath, form.body)
                     /\ reqs' = Append(reqs, [r EXCEPT !.pc = "call", !.file_id = file_id,
                                                       !.dot_filepath = temp_filepath])
    /\ UNCHANGED <<call, ret, outputs, last_get>>

\* /generate_from_existing, lines 190-205: validate the JSON
ReceiveExisting ==
    /\ Len(reqs) < MaxRequests
    /\ \E form \in ExistingForms :
        LET r == NewRequest("generate_from_existing", form.filename, <<>>,
                            form.signal_generator_image, form.spectrum_analyzer_image)
        IN  IF ~form.has_name
            THEN reqs' = Append(reqs, Rejected(r, 400, "No filename provided"))
            ELSE IF ~CwdExists(form.filename)
            THEN reqs' = Append(reqs, Rejected(r, 404, "File not found"))
            ELSE IF ~allowed_file(form.filename)
            THEN reqs' = Append(reqs, Rejected(r, 400, "Invalid file type"))
            ELSE reqs' = Append(reqs, [r EXCEPT !.pc = "call", !.dot_filepath = form.filename])
    /\ UNCHANGED <<call, ret, uploads, outputs, last_get>>

\* lines 183-185 and 225-227: the handler's except clause
Failed(r, error) == [r EXCEPT !.pc = "done", !.response = ErrorResponse(500, error)]

\* the text open(dot_filepath).read() returns: {} when it cannot be opened
ReadFile(r) ==
    IF r.route = "generate"
    THEN { f.text : f \in Lookup(uploads, r.dot_filepath) }
    ELSE IF r.dot_filepath \in CwdFiles THEN {FileText(r.dot_filepath)} ELSE {}

\* lines 259-262: the call is entered and the file is read
ReadDot(i) ==
    /\ reqs[i].pc = "call"
    /\ LET r == [reqs[i] EXCEPT !.invoked = TRUE]
       IN  IF ReadFile(r) = {}
           THEN reqs' = [reqs EXCEPT ![i] = Failed(r, "read_error")]
           ELSE \E text \in ReadFile(r) :
                    reqs' = [reqs EXCEPT ![i] = [r EXCEPT !.pc = "read", !.dot_content = text]]
    /\ UNCHANGED <<call, ret, uploads, outputs, last_get>>

\* lines 264-286
SubstituteStep(i) ==
    /\ reqs[i].pc = "read"
    /\ LET r == reqs[i]
           s == Substitute(r.dot_filepath, r.dot_content,
                           r.signal_generator_image, r.spectrum_analyzer_image)
       IN  IF s.raised
           THEN reqs' = [reqs EXCEPT ![i] = Failed(r, "signal_generator_image_not_found")]
           ELSE reqs' = [reqs EXCEPT ![i] = [r EXCEPT !.pc = "substituted",
                                                      !.dot_content = s.content]]
    /\ UNCHANGED <<call, ret, uploads, outputs, last_get>>

\* lines 288-298
RenderStep(i) ==
    /\ reqs[i].pc = "substituted"
    /\ LET r == reqs[i]
           out == RenderPipe(r.dot_content)
       IN  IF out.raised
           THEN reqs' = [reqs EXCEPT ![i] = Failed(r, out.error)]
           ELSE reqs' = [reqs EXCEPT ![i] = [r EXCEPT !.pc = "rendered", !.png_data = out.png]]
    /\ UNCHANGED <<call, ret, uploads, outputs, last_get>>

\* line 169: os.remove(temp_filepath)
RemoveTemp(i) ==
    /\ reqs[i].pc = "rendered"
    /\ reqs[i].route = "generate"
    /\ IF Lookup(uploads, reqs[i].dot_filepath) = {}
       THEN /\ reqs' = [reqs EXCEPT ![i] = Failed(reqs[i], "remove_error")]
            /\ UNCHANGED uploads
       ELSE /\ uploads' = uploads \ Lookup(uploads, reqs[i].dot_filepath)
            /\ reqs' = [reqs EXCEPT ![i].pc = "removed"]
    /\ UNCHANGED <<call, ret, outputs, last_get>>

\* lines 171-181 and 210-223: write the PNG and answer with its name
WriteOutput(i) ==
    /\ \/ reqs[i].route = "generate" /\ reqs[i].pc = "removed"
       \/ reqs[i].route = "generate_from_existing" /\ reqs[i].pc = "rendered"
    /\ LET r == reqs[i]
           file_id == IF r.route = "generate" THEN r.file_id ELSE NewUuid(i)
           output_filename == IF r.route = "generate" THEN UploadOutputName(file_id)
                              ELSE ExistingOutputName(r.filename, file_id)
       IN  /\ outputs' = WriteFile(outputs, output_filename, r.png_data)
           /\ reqs' = [reqs EXCEPT ![i] = [r EXCEPT !.pc = "done", !.file_id = file_id,
                                                    !.response = OkResponse(output_filename)]]
    /\ UNCHANGED <<call, ret, uploads, last_get>>

\* the names a client asks for: those it was given, and one it was not
ReturnedNames == { reqs[i].response.output_file : i \in { j \in DOMAIN reqs : reqs[j].response.status = 200 } }
GetNames == ReturnedNames \cup { <<"nothing", ".png">> }

\* lines 233-237 and 247-251: 404 or the file's content
SendFile(route, filename) ==
    IF \E f \in outputs : f.name = filename
    THEN LET f == CHOOSE f \in outputs : f.name = filename
         IN  [route |-> route, filename |-> filename, status |-> 200, body |-> f.data]
    ELSE [route |-> route, filename |-> filename, status |-> 404, body |-> <<>>]

\* /download/<filename>
DownloadFile ==
    /\ \E filename \in GetNames : last_get' = SendFile("download", filename)
    /\ UNCHANGED <<call, ret, reqs, uploads, outputs>>

\* /image/<filename>
ServeImage ==
    /\ \E filename \in GetNames : last_get' = SendFile("image", filename)
    /\ UNCHANGED <<call, ret, reqs, uploads, outputs>>

Next ==
    \/ ReceiveUpload
    \/ ReceiveExisting
    \/ \E i \in DOMAIN reqs : ReadDot(i)
    \/ \E i \in DOMAIN reqs : SubstituteStep(i)
    \/ \E i \in DOMAIN reqs : RenderStep(i)
    \/ \E i \in DOMAIN reqs : RemoveTemp(i)
    \/ \E i \in DOMAIN reqs : WriteOutput(i)
    \/ DownloadFile
    \/ ServeImage

Spec == Init /\ [][Next]_vars

\* ---------------------------------------------------------------- properties of a call

Roles == {"signal_generator", "spectrum_analyzer"}
DefaultImage(role) == IF role = "signal_generator" THEN DefaultSG ELSE DefaultSA
DefaultLabel(role) == IF role = "signal_generator" THEN SGLabel ELSE SALabel
Requested(c, role) ==
    IF role = "signal_generator" THEN c.signal_generator_image ELSE c.spectrum_analyzer_image

\* some image or label token of the role reads differently in `out`
RoleTokensDiffer(src, out, role) ==
    \E i \in DOMAIN src :
        /\ src[i] \in {ImageTok(DefaultImage(role)), LabelTok(DefaultLabel(role))}
        /\ out[i] # src[i]

\* some default image token of the role was replaced
ImageSubstituted(src, out, role) ==
    \E i \in DOMAIN src : src[i] = ImageTok(DefaultImage(role)) /\ out[i] # src[i]

CallDone == ret # NoReturn

\* C1: the text submitted to the renderer differs from the source in a role's
\* image or label token only if the default image token is in the source, the
\* requested reference differs from the default and the requested reference
\* exists; otherwise both tokens are left as in the source.
C1_SubstitutionOnlyIfAllThree ==
    (CallDone /\ ret.rendered) =>
        \A role \in Roles :
            RoleTokensDiffer(call.dot_content, ret.submitted, role) =>
                /\ Contains(call.dot_content, ImageTok(DefaultImage(role)))
                /\ Requested(call, role) # DefaultImage(role)
                /\ PathExists(Requested(call, role))

NoAssetTokens(text) ==
    /\ ~Contains(text, ImageTok(DefaultSG))
    /\ ~Contains(text, ImageTok(DefaultSA))

\* C8: for a source text holding neither default image token, the call submits
\* the source text itself and returns what rendering the source text returns,
\* whatever the substitution parameters and the file name are.
C8_NoTokensNoOp ==
    (CallDone /\ NoAssetTokens(call.dot_content)) => ret = RenderPipe(call.dot_content)

\* a harmonic-named source with a label but no image token, a missing signal
\* generator image and another spectrum analyzer image, rendered unchanged
C8_Witness ==
    /\ CallDone
    /\ NoAssetTokens(call.dot_content)
    /\ call.dot_filepath = HarmonicName
    /\ Contains(call.dot_content, LabelTok(SGLabel))
    /\ call.signal_generator_image = MissingAsset
    /\ call.spectrum_analyzer_image # DefaultSA
    /\ ~ret.raised
    /\ ret.submitted = call.dot_content

\* os.path.basename and os.path.splitext()[0], as the label is specified
BaseName(ref) == SubSeq(ref, RFind(ref, "/") + 1, Len(ref))
ExtensionAtoms == {".png", ".jpg"}
StripExtension(name) ==
    IF Len(name) > 1 /\ name[Len(name)] \in ExtensionAtoms
    THEN SubSeq(name, 1, Len(name) - 1) ELSE name

\* C9: whenever an image substitution is applied for a role, the role's default
\* label token is replaced too, by the label prefix followed by the base name of
\* the requested reference with its extension stripped.
C9_LabelFollowsImage ==
    (CallDone /\ ret.rendered) =>
        \A role \in Roles :
            ImageSubstituted(call.dot_content, ret.submitted, role) =>
                \A j \in DOMAIN call.dot_content :
                    call.dot_content[j] = LabelTok(DefaultLabel(role)) =>
                        ret.submitted[j] =
                            LabelTok(KeysightLabel(StripExtension(BaseName(Requested(call, role)))))

\* ---------------------------------------------------------------- properties of the service

\* the text of the file a request asks to render
Source(r) == IF r.route = "generate" THEN r.body ELSE FileText(r.filename)

Succeeded(r) == r.pc = "done" /\ r.response.status = 200

\* the renderer accepted the request's text (r.dot_content is that text)
Rendered(r) == r.pc \in {"rendered", "removed"} \/ Succeeded(r)

\* the substitution code ran for the request
ReachedSubstitution(r) ==
    \/ r.pc \in {"substituted", "rendered", "removed"}
    \/ r.pc = "done" /\ r.invoked /\ r.response.error # "read_error"

\* C2: on both routes, when a role's default image token is in the source, the
\* requested reference differs from the default and exists, every occurrence of
\* the default token is replaced in the submitted text; and two requests with
\* the same source text and parameters fare the same whatever their file is.
C2_EveryOccurrenceReplaced ==
    /\ \A i \in DOMAIN reqs : \A role \in Roles :
        LET r == reqs[i] IN
        ( /\ Rendered(r)
          /\ Contains(Source(r), ImageTok(DefaultImage(role)))
          /\ Requested(r, role) # DefaultImage(role)
          /\ PathExists(Requested(r, role)) ) =>
            \A j \in DOMAIN r.dot_content :
                Source(r)[j] = ImageTok(DefaultImage(role)) =>
                    r.dot_content[j] = ImageTok(Requested(r, role))
    /\ \A i, j \in DOMAIN reqs :
        ( /\ Rendered(reqs[i]) /\ Rendered(reqs[j])
          /\ Source(reqs[i]) = Source(reqs[j])
          /\ \A role \in Roles : Requested(reqs[i], role) = Requested(reqs[j], role) ) =>
            reqs[i].dot_content = reqs[j].dot_content

\* the role's default token is in the source and a reference that does not
\* exist is requested for it
MissingRequested(r, role) ==
    /\ Contains(Source(r), ImageTok(DefaultImage(role)))
    /\ Requested(r, role) # DefaultImage(role)
    /\ ~PathExists(Requested(r, role))

AssetFailure(r, role) ==
    /\ role = "signal_generator"
    /\ r.response.error = "signal_generator_image_not_found"

\* C3: for each role, requesting a reference that does not exist has the same
\* outcome in every render: always the asset-not-found failure or always the
\* fallback to the default, whatever source file is rendered.
C3_MissingAssetPolicyPerRole ==
    \A role \in Roles : \A i, j \in DOMAIN reqs :
        ( /\ ReachedSubstitution(reqs[i]) /\ MissingRequested(reqs[i], role)
          /\ ReachedSubstitution(reqs[j]) /\ MissingRequested(reqs[j], role) ) =>
            (AssetFailure(reqs[i], role) <=> AssetFailure(reqs[j], role))

\* C4: the files of the output folder are exactly the artifacts named in
\* successful responses, one file each; a request that failed answers with an
\* error, names no artifact and adds no file.
C4_OutputsAreReturnedArtifacts ==
    /\ { f.name : f \in outputs } = ReturnedNames
    /\ Cardinality(outputs) = Cardinality({ i \in DOMAIN reqs : Succeeded(reqs[i]) })
    /\ \A i \in DOMAIN reqs :
        (reqs[i].pc = "done" /\ ~Succeeded(reqs[i])) =>
            /\ reqs[i].response.status \in {400, 404, 500}
            /\ reqs[i].response.output_file = <<>>

\* one request failed in the renderer call, another succeeded: one file
C4_Witness ==
    /\ Len(reqs) = 2
    /\ reqs[1].pc = "done" /\ reqs[1].response.status = 500
    /\ reqs[1].response.error = "signal_generator_image_not_found"
    /\ Succeeded(reqs[2])
    /\ Cardinality(outputs) = 1

\* C5: once a request has answered with output_file, /image and /download find
\* that file and serve the bytes the renderer returned for that request,
\* whatever other requests were handled since.
C5_RoundTrip ==
    \A i \in DOMAIN reqs :
        Succeeded(reqs[i]) =>
            /\ \A route \in {"image", "download"} :
                LET got == SendFile(route, reqs[i].response.output_file)
                IN  got.status = 200 /\ got.body = reqs[i].png_data
            /\ last_get.filename = reqs[i].response.output_file =>
                (last_get.status = 200 /\ last_get.body = reqs[i].png_data)

\* the first artifact is downloaded, and a second request of the same file
\* with another substitution has written its own artifact
C5_Witness ==
    /\ Len(reqs) = 2
    /\ Succeeded(reqs[1]) /\ Succeeded(reqs[2])
    /\ reqs[1].filename = reqs[2].filename
    /\ reqs[1].png_data # reqs[2].png_data
    /\ last_get.route = "download"
    /\ last_get.status = 200
    /\ last_get.filename = reqs[1].response.output_file
    /\ last_get.body = reqs[1].png_data

\* the artifact of a request's own source text and parameters
OwnArtifact(r) ==
    PngOf(Substitute(r.dot_filepath, Source(r),
                     r.signal_generator_image, r.spectrum_analyzer_image).content)

\* C6: requests whose steps interleave do not interfere: staged paths and
\* output names are each used by one request only, and what a request renders
\* and what its output file holds come from its own source text and parameters.
C6_NoInterference ==
    \A i \in DOMAIN reqs :
        LET r == reqs[i] IN
        /\ \A j \in DOMAIN reqs \ {i} :
            /\ (r.route = "generate" /\ reqs[j].route = "generate" /\ r.file_id # "")
                    => r.dot_filepath # reqs[j].dot_filepath
            /\ (Succeeded(r) /\ Succeeded(reqs[j]))
                    => r.response.output_file # reqs[j].response.output_file
        /\ r.pc \in {"rendered", "removed"} => r.png_data = OwnArtifact(r)
        /\ Succeeded(r) =>
            \E f \in outputs : f.name = r.response.output_file /\ f.data = OwnArtifact(r)

\* the second request ran from its read to its write while the first, of the
\* same source with another substitution, stood between render and write
C6_Witness ==
    /\ Len(reqs) = 2
    /\ reqs[1].pc = "rendered"
    /\ Succeeded(reqs[2])
    /\ Source(reqs[1]) = Source(reqs[2])
    /\ reqs[1].signal_generator_image # reqs[2].signal_generator_image
    /\ reqs[1].png_data # reqs[2].png_data
    /\ \E f \in outputs : f.data = OwnArtifact(reqs[2])

\* the file name ends, in any case, in .dot or .gv
EndsDotOrGv(filename) ==
    /\ Len(filename) >= 2
    /\ filename[Len(filename) - 1] = "."
    /\ Lower(filename[Len(filename)]) \in {"dot", "gv"}

\* C7: on both routes a request whose file name does not end in .dot or .gv is
\* answered with an error and generate_png_from_dot_file is never entered for it.
C7_ExtensionCheckedFirst ==
    \A i \in DOMAIN reqs :
        ~EndsDotOrGv(reqs[i].filename) =>
            /\ reqs[i].pc = "done"
            /\ reqs[i].response.status \in {400, 404}
            /\ ~reqs[i].invoked

\* an uploaded graph.txt and the existing notes.txt, both refused
C7_Witness ==
    /\ Len(reqs) = 2
    /\ reqs[1].route = "generate" /\ reqs[1].filename = <<"graph", ".", "txt">>
    /\ reqs[1].response.status = 400
    /\ reqs[2].route = "generate_from_existing" /\ reqs[2].filename = NotesName
    /\ reqs[2].response.status = 400

\* C10: once a /generate request has answered, the file it staged is gone, so
\* with every request answered the upload folder is empty.
C10_StagedFileRemoved ==
    /\ \A i \in DOMAIN reqs :
        (reqs[i].route = "generate" /\ reqs[i].pc = "done" /\ reqs[i].file_id # "") =>
            Lookup(uploads, StagedPath(reqs[i].file_id)) = {}
    /\ (\A i \in DOMAIN reqs : reqs[i].pc = "done") => uploads = {}

====
